---- MODULE Spec2Model ----
(***************************************************************************)
(* KeyRx system tray (src/keyrx_tray/keyrx-tray.py).                       *)
(*                                                                         *)
(* The tray is a single-threaded GTK program.  The GLib main loop          *)
(* dispatches one source at a time (the 5 s timer, a menu event); a        *)
(* handler runs to completion and blocks the loop while one of its         *)
(* requests.get / requests.post calls is outstanding.  The model keeps the *)
(* Python call stack explicitly: a frame is suspended either on a network  *)
(* call or on a call into another handler.  Gtk.CheckMenuItem.set_active   *)
(* emits "activate" whenever it changes the checked state, the item's      *)
(* class handler flips the state first and the connected Python handler    *)
(* runs next, nested inside the caller.                                    *)
(***************************************************************************)
EXTENDS Integers, Sequences, FiniteSets, TLC

VARIABLES
    mock,               \* MOCK_MODE, fixed at process start
    daemon_running,     \* self.daemon_running
    current_profile,    \* self.current_profile
    remapping_enabled,  \* self.remapping_enabled
    profiles_loaded,    \* hasattr(self, '_profiles_loaded')
    toggle_active,      \* self.toggle_item.get_active()
    submenu,            \* self.profiles_submenu.get_children()
    timer_registered,   \* the GLib timeout source of line 53 is still installed
    tick_due,           \* the timeout source is ready to be dispatched
    events,             \* menu events waiting in the main loop, oldest first
    stack,              \* Python call stack of the handler being run, innermost last
    outstanding,        \* requests issued and not yet answered
    run                 \* bookkeeping about the top-level handler being run / last run

vars == << mock, daemon_running, current_profile, remapping_enabled, profiles_loaded,
           toggle_active, submenu, timer_registered, tick_due, events, stack,
           outstanding, run >>

----------------------------------------------------------------------------
(* Bounds of the model *)

\* menu events that may wait in the main loop while a handler blocks it
MaxQueue == 1
\* nested activations of on_toggle_remapping (failed POSTs in a row) explored
MaxDepth == 3

----------------------------------------------------------------------------
(* Values *)

\* Python None / the default of status.get("profile", "Unknown")
None == "None"
Unknown == "Unknown"

Names == {"default", "gaming", "coding"}
\* the profiles a live daemon knows
LiveNames == {"default", "gaming"}

STATUS == "/api/status"
PROFILES == "/api/profiles"
TOGGLE == "/api/toggle"
ACTIVATE == "/api/profiles/activate"

\* a parsed JSON object, or None (none = TRUE); a field is meaningful only
\* when its key is in keys
Dict(k, r, p, e, l) ==
    [none |-> FALSE, keys |-> k, running |-> r, profile |-> p,
     remapping_enabled |-> e, profiles |-> l]
NoneDict ==
    [none |-> TRUE, keys |-> {}, running |-> FALSE, profile |-> "default",
     remapping_enabled |-> FALSE, profiles |-> << >>]

\* an HTTP exchange as requests sees it: http = FALSE is a network error, a
\* timeout, a non-success status or a body that is not JSON
Response(d) == [http |-> TRUE, body |-> d]
NetError == [http |-> FALSE, body |-> NoneDict]

StatusKeys == {"running", "profile", "remapping_enabled"}

StatusBodies ==
    { Dict(k, r, p, e, << >>) :
        k \in SUBSET StatusKeys, r \in BOOLEAN, p \in LiveNames, e \in BOOLEAN }

\* bodies in which an absent key carries one fixed filler value
NormalStatusBodies ==
    { d \in StatusBodies :
        /\ ("running" \notin d.keys => d.running = FALSE)
        /\ ("profile" \notin d.keys => d.profile = "default")
        /\ ("remapping_enabled" \notin d.keys => d.remapping_enabled = FALSE) }

StatusResponses == {NetError} \cup { Response(d) : d \in NormalStatusBodies }

Entry(n, a) == [name |-> n, active |-> a]

CountActive(l) == Cardinality({ i \in DOMAIN l : l[i].active })

\* the daemon lists each profile once, in any order, and marks at most one active
ProfileLists ==
    { l \in UNION { [1..n -> { Entry(nm, a) : nm \in LiveNames, a \in BOOLEAN }] :
                      n \in 0..Cardinality(LiveNames) } :
        /\ \A i, j \in DOMAIN l : l[i].name = l[j].name => i = j
        /\ CountActive(l) <= 1 }

ProfilesResponses ==
    {NetError, Response(Dict({}, FALSE, "default", FALSE, << >>))}
        \cup { Response(Dict({"profiles"}, FALSE, "default", FALSE, l)) : l \in ProfileLists }

\* an Ack (success status) or a failure of a POST
PostResponses == BOOLEAN

----------------------------------------------------------------------------
(* Transport: api_get, api_post, mock_api_response *)

MockProfiles ==
    << Entry("default", TRUE), Entry("gaming", FALSE), Entry("coding", FALSE) >>

mock_api_response(endpoint) ==
    IF endpoint = STATUS
    THEN Dict({"running", "version", "profile", "remapping_enabled"},
              TRUE, "default", remapping_enabled, << >>)
    ELSE IF endpoint = PROFILES
    THEN Dict({"profiles"}, FALSE, "default", FALSE, MockProfiles)
    ELSE Dict({}, FALSE, "default", FALSE, << >>)

\* Optional[dict]: the parsed body, or None on any exception
api_get(endpoint, resp) ==
    IF mock THEN mock_api_response(endpoint)
    ELSE IF resp.http THEN resp.body ELSE NoneDict

api_post(ack) == IF mock THEN TRUE ELSE ack

\* Python truth value of an Optional[dict]: None and {} are both false
Truthy(d) == ~d.none /\ d.keys # {}

\* the answers the transport can get; in mock mode nothing is sent and
\* api_get / api_post do not look at the answer
Answers(all) == IF mock THEN {NetError} ELSE all
Acks == IF mock THEN {TRUE} ELSE PostResponses

----------------------------------------------------------------------------
(* Menu items of the profiles submenu *)

Item(k, l, a) == [kind |-> k, label |-> l, active |-> a]

\* build_menu: the refresh action and the separator
FixedItems == << Item("action", "Refresh Profiles", FALSE), Item("separator", "", FALSE) >>

Placeholder == Item("disabled", "No profiles available", FALSE)

ClearedSubmenu_keep(sm) == sm

\* for item in get_children()[2:]: remove(item)
ClearedSubmenu(sm) == SubSeq(sm, 1, IF Len(sm) < 2 THEN Len(sm) ELSE 2)

ProfileItems_unmarked(profiles_data) ==
    IF ~Truthy(profiles_data)
    THEN << Placeholder >>
    ELSE LET profiles == IF "profiles" \in profiles_data.keys
                         THEN profiles_data.profiles ELSE << >>
         IN [i \in 1..Len(profiles) |-> Item("check", profiles[i].name, FALSE)]

\* the items update_profiles appends for one answer
ProfileItems(profiles_data) ==
    IF ~Truthy(profiles_data)
    THEN << Placeholder >>
    ELSE LET profiles == IF "profiles" \in profiles_data.keys
                         THEN profiles_data.profiles ELSE << >>
         IN [i \in 1..Len(profiles) |-> Item("check", profiles[i].name, profiles[i].active)]

HasProfileItem(sm, n) == \E i \in DOMAIN sm : sm[i].kind = "check" /\ sm[i].label = n

\* Gtk.CheckMenuItem's class handler of "activate": the clicked item flips
ActivatedItem(sm, n) ==
    [i \in DOMAIN sm |->
        IF sm[i].kind = "check" /\ sm[i].label = n
        THEN [sm[i] EXCEPT !.active = ~sm[i].active] ELSE sm[i]]

ActiveNames(sm) == { sm[i].label : i \in { j \in DOMAIN sm : sm[j].kind = "check" /\ sm[j].active } }
NumActive(sm) == Cardinality({ j \in DOMAIN sm : sm[j].kind = "check" /\ sm[j].active })

----------------------------------------------------------------------------
(* Call stack, requests, bookkeeping *)

Frame(f, p, e, n, t) == [fn |-> f, pc |-> p, enabled |-> e, name |-> n, timer |-> t]

Request(m, ep) == [method |-> m, endpoint |-> ep]

Top == stack[Len(stack)]
Front(q) == SubSeq(q, 1, Len(q) - 1)
SetTopPc(p) == [stack EXCEPT ![Len(stack)].pc = p]
At(f, p) == stack # << >> /\ Top.fn = f /\ Top.pc = p

Snapshot(ever) ==
    [daemon_running |-> daemon_running, current_profile |-> current_profile,
     remapping_enabled |-> remapping_enabled, toggle_active |-> toggle_active,
     submenu |-> submenu, profiles_loaded |-> profiles_loaded, ever_ok |-> ever,
     polled |-> run.polled]

\* what a status object says when it carries both fields the tray shows
NoPayload == [full |-> FALSE, profile |-> "default", enabled |-> FALSE]
Payload(d) ==
    IF ~d.none /\ {"profile", "remapping_enabled"} \subseteq d.keys
    THEN [full |-> TRUE, profile |-> d.profile, enabled |-> d.remapping_enabled]
    ELSE NoPayload

\* the record kept about one top-level handler: who started it, the state it
\* started from, how its first request ended, what it has sent and shown
NewRun(f, s, n, ov, pre) ==
    [fn |-> f, src |-> s, active |-> TRUE, enabled |-> FALSE, name |-> n,
     overlapped |-> ov, pre |-> pre, first |-> "none", accepted |-> FALSE,
     ever_ok |-> pre.ever_ok, polled |-> pre.polled,
     status |-> NoPayload, profiles_data |-> NoneDict,
     posts_toggle |-> 0, posts_activate |-> 0, gets_status |-> 0, gets_profiles |-> 0,
     notes_ok |-> 0, notes_err |-> 0]

Stopped(stk, r) == IF stk = << >> THEN [r EXCEPT !.active = FALSE] ELSE r

\* the outcome of the first request of the handler, as the transport saw it
First(r, ok) ==
    IF Len(stack) = 1 /\ r.first = "none"
    THEN [r EXCEPT !.first = IF ok THEN "ok" ELSE "fail"] ELSE r

----------------------------------------------------------------------------
(* Main loop (Gtk.main) *)

\* a handler runs to completion before the next source is dispatched
LoopIdle == stack = << >>

TickDispatchable_threaded == tick_due

\* the timeout source of line 53 is dispatched by the idle loop only
TickDispatchable == LoopIdle /\ tick_due

EventDispatchable_threaded == events # << >>

\* a menu event is dispatched by the idle loop only
EventDispatchable == LoopIdle /\ events # << >>

----------------------------------------------------------------------------
(* Pieces of the handlers *)

\* update_profiles, lines 192-195: clear the profile items and ask for the list
update_profiles_call(stk, out, r) ==
    /\ submenu' = ClearedSubmenu(submenu)
    /\ stack' = Append(stk, Frame("update_profiles", "get_profiles", FALSE, "", FALSE))
    /\ outstanding' = Append(out, Request("GET", PROFILES))
    /\ run' = [r EXCEPT !.gets_profiles = @ + 1]

on_toggle_remapping_call_late(enabled, stk, out, r) ==
    /\ remapping_enabled' = remapping_enabled
    /\ stack' = Append(stk, Frame("on_toggle_remapping", "post_toggle", enabled, "", FALSE))
    /\ outstanding' = Append(out, Request("POST", TOGGLE))
    /\ run' = [r EXCEPT !.posts_toggle = @ + 1]

\* on_toggle_remapping, lines 212-215, entered with the item already flipped
on_toggle_remapping_call(enabled, stk, out, r) ==
    /\ remapping_enabled' = enabled
    /\ stack' = Append(stk, Frame("on_toggle_remapping", "post_toggle", enabled, "", FALSE))
    /\ outstanding' = Append(out, Request("POST", TOGGLE))
    /\ run' = [r EXCEPT !.posts_toggle = @ + 1]

\* toggle_item.set_active(target): a change of the checked state emits
\* "activate", which flips the item and runs on_toggle_remapping (connected
\* at line 70) nested in the caller; no change, no signal
set_active(target, stk, out, r) ==
    IF toggle_active # target
    THEN /\ toggle_active' = target
         /\ on_toggle_remapping_call(target, stk, out, r)
    ELSE /\ toggle_active' = toggle_active
         /\ remapping_enabled' = remapping_enabled
         /\ stack' = stk
         /\ outstanding' = out
         /\ run' = r

update_status_return_stop(running) == running

\* line 187
update_status_return(running) == TRUE

\* update_status returns to its caller: GLib keeps the timeout source only if
\* the callback returned True; __init__ (line 54) drops the value
update_status_exit(running, r) ==
    /\ stack' = Front(stack)
    /\ timer_registered' = IF Top.timer THEN update_status_return(running)
                           ELSE timer_registered
    /\ run' = Stopped(Front(stack), [r EXCEPT !.polled = TRUE])

status_failure_reset == [current_profile |-> None, profiles_loaded |-> profiles_loaded]

\* lines 182-185: what the else branch leaves in the fields other than daemon_running
status_failure == [current_profile |-> current_profile, profiles_loaded |-> profiles_loaded]

needs_profiles_always == TRUE

\* line 179
needs_profiles == ~profiles_loaded

----------------------------------------------------------------------------
(* Initial state: __init__ has run up to the api_get of its own              *)
(* update_status() call (line 54); the timer of line 53 is installed.        *)

InitSnapshot ==
    [daemon_running |-> FALSE, current_profile |-> None, remapping_enabled |-> TRUE,
     toggle_active |-> TRUE, submenu |-> FixedItems, profiles_loaded |-> FALSE,
     ever_ok |-> FALSE, polled |-> FALSE]

Init_without_poll ==
    /\ mock \in BOOLEAN
    /\ daemon_running = FALSE
    /\ current_profile = None
    /\ remapping_enabled = TRUE
    /\ profiles_loaded = FALSE
    /\ toggle_active = TRUE
    /\ submenu = FixedItems
    /\ timer_registered = TRUE
    /\ tick_due = FALSE
    /\ events = << >>
    /\ stack = << >>
    /\ outstanding = << >>
    /\ run = [NewRun("none", "init", "", FALSE, InitSnapshot) EXCEPT !.active = FALSE]

Init ==
    /\ mock \in BOOLEAN
    /\ daemon_running = FALSE
    /\ current_profile = None
    /\ remapping_enabled = TRUE
    /\ profiles_loaded = FALSE
    /\ toggle_active = TRUE
    /\ submenu = FixedItems
    /\ timer_registered = TRUE
    /\ tick_due = FALSE
    /\ events = << >>
    /\ stack = << Frame("update_status", "get_status", FALSE, "", FALSE) >>
    /\ outstanding = << Request("GET", STATUS) >>
    /\ run = [NewRun("update_status", "init", "", FALSE, InitSnapshot) EXCEPT !.gets_status = 1]

----------------------------------------------------------------------------
(* Environment: the timer becomes due, the user picks a menu item *)

TimerFires ==
    /\ timer_registered
    /\ ~tick_due
    /\ tick_due' = TRUE
    /\ UNCHANGED << mock, daemon_running, current_profile, remapping_enabled,
                    profiles_loaded, toggle_active, submenu, timer_registered, events,
                    stack, outstanding, run >>

\* whether the click comes while a POST /api/profiles/activate is outstanding
During == \E i \in DOMAIN outstanding : outstanding[i].endpoint = ACTIVATE

Event(k, n) == [kind |-> k, name |-> n, during |-> k = "switch" /\ During]

UserEvents ==
    {Event("toggle", ""), Event("refresh", "")}
        \cup { Event("switch", n) : n \in { m \in Names : HasProfileItem(submenu, m) } }

UserClicks ==
    /\ Len(events) < MaxQueue
    /\ \E ev \in UserEvents : events' = Append(events, ev)
    /\ UNCHANGED << mock, daemon_running, current_profile, remapping_enabled,
                    profiles_loaded, toggle_active, submenu, timer_registered, tick_due,
                    stack, outstanding, run >>

----------------------------------------------------------------------------
(* Dispatch of a source by the main loop *)

\* the timer calls update_status, which issues its status GET (line 166)
DispatchTick ==
    /\ TickDispatchable
    /\ tick_due' = FALSE
    /\ stack' = Append(stack, Frame("update_status", "get_status", FALSE, "", TRUE))
    /\ outstanding' = Append(outstanding, Request("GET", STATUS))
    /\ run' = [NewRun("update_status", "timer", "", FALSE, Snapshot(run.ever_ok))
                 EXCEPT !.gets_status = 1]
    /\ UNCHANGED << mock, daemon_running, current_profile, remapping_enabled,
                    profiles_loaded, toggle_active, submenu, timer_registered, events >>

\* a click on "Enable Remapping": the item flips, on_toggle_remapping runs
DispatchToggle ==
    /\ EventDispatchable
    /\ Head(events).kind = "toggle"
    /\ events' = Tail(events)
    /\ toggle_active' = ~toggle_active
    /\ on_toggle_remapping_call(~toggle_active, stack, outstanding,
          [NewRun("on_toggle_remapping", "user", "", Head(events).during,
                  Snapshot(run.ever_ok)) EXCEPT !.enabled = ~toggle_active])
    /\ UNCHANGED << mock, daemon_running, current_profile, profiles_loaded, submenu,
                    timer_registered, tick_due >>

\* a click on a profile item: the item flips, on_switch_profile runs and
\* issues its POST (line 233); a click on an item that is gone is lost
DispatchSwitch ==
    /\ EventDispatchable
    /\ Head(events).kind = "switch"
    /\ events' = Tail(events)
    /\ IF HasProfileItem(submenu, Head(events).name)
       THEN /\ submenu' = ActivatedItem(submenu, Head(events).name)
            /\ stack' = Append(stack, Frame("on_switch_profile", "post_activate", FALSE,
                                            Head(events).name, FALSE))
            /\ outstanding' = Append(outstanding, Request("POST", ACTIVATE))
            /\ run' = [NewRun("on_switch_profile", "user", Head(events).name,
                              Head(events).during, Snapshot(run.ever_ok))
                         EXCEPT !.posts_activate = 1]
       ELSE UNCHANGED << submenu, stack, outstanding, run >>
    /\ UNCHANGED << mock, daemon_running, current_profile, remapping_enabled,
                    profiles_loaded, toggle_active, timer_registered, tick_due >>

\* a click on "Refresh Profiles": lambda _: self.update_profiles()
DispatchRefresh ==
    /\ EventDispatchable
    /\ Head(events).kind = "refresh"
    /\ events' = Tail(events)
    /\ update_profiles_call(stack, outstanding,
          NewRun("update_profiles", "user", "", Head(events).during, Snapshot(run.ever_ok)))
    /\ UNCHANGED << mock, daemon_running, current_profile, remapping_enabled,
                    profiles_loaded, toggle_active, timer_registered, tick_due >>

----------------------------------------------------------------------------
(* update_status *)

\* lines 166-175 (status accepted) or 166-168, 182-187 (status refused)
StatusAnswered ==
    /\ At("update_status", "get_status")
    /\ \E resp \in Answers(StatusResponses) :
         LET status == api_get(STATUS, resp)
             r == [First(run, mock \/ resp.http) EXCEPT !.status = Payload(status)]
         IN IF Truthy(status)
            THEN /\ daemon_running' = TRUE
                 /\ current_profile' =
                        IF "profile" \in status.keys THEN status.profile ELSE Unknown
                 /\ set_active(IF "remapping_enabled" \in status.keys
                                  THEN status.remapping_enabled ELSE TRUE,
                               SetTopPc("set_active"), Front(outstanding),
                               [r EXCEPT !.accepted = TRUE, !.ever_ok = TRUE])
                 /\ UNCHANGED << profiles_loaded, timer_registered >>
            ELSE /\ daemon_running' = FALSE
                 /\ current_profile' = status_failure.current_profile
                 /\ profiles_loaded' = status_failure.profiles_loaded
                 /\ outstanding' = Front(outstanding)
                 /\ update_status_exit(FALSE, r)
                 /\ UNCHANGED << remapping_enabled, toggle_active >>
    /\ UNCHANGED << mock, submenu, tick_due, events >>

\* lines 176-180, after set_active has returned: the first accepted status
\* loads the profile list
StatusLoadsProfiles ==
    /\ At("update_status", "set_active")
    /\ needs_profiles
    /\ update_profiles_call(SetTopPc("update_profiles"), outstanding, run)
    /\ UNCHANGED << mock, daemon_running, current_profile, remapping_enabled,
                    profiles_loaded, toggle_active, timer_registered, tick_due, events >>

\* lines 176-179, 187: the list was loaded before, return True
StatusReturns ==
    /\ At("update_status", "set_active")
    /\ ~needs_profiles
    /\ update_status_exit(daemon_running, run)
    /\ UNCHANGED << mock, daemon_running, current_profile, remapping_enabled,
                    profiles_loaded, toggle_active, submenu, tick_due, events,
                    outstanding >>

\* lines 181, 187, after update_profiles has returned
StatusLoaded ==
    /\ At("update_status", "update_profiles")
    /\ profiles_loaded' = TRUE
    /\ update_status_exit(daemon_running, run)
    /\ UNCHANGED << mock, daemon_running, current_profile, remapping_enabled,
                    toggle_active, submenu, tick_due, events, outstanding >>

----------------------------------------------------------------------------
(* update_profiles *)

\* lines 195-208: the answer to GET /api/profiles becomes the profile items
ProfilesAnswered ==
    /\ At("update_profiles", "get_profiles")
    /\ \E resp \in Answers(ProfilesResponses) :
         /\ submenu' = submenu \o ProfileItems(api_get(PROFILES, resp))
         /\ run' = Stopped(Front(stack),
                         [First(run, mock \/ resp.http)
                            EXCEPT !.profiles_data = api_get(PROFILES, resp)])
    /\ stack' = Front(stack)
    /\ outstanding' = Front(outstanding)
    /\ UNCHANGED << mock, daemon_running, current_profile, remapping_enabled,
                    profiles_loaded, toggle_active, timer_registered, tick_due, events >>

----------------------------------------------------------------------------
(* on_toggle_remapping *)

\* lines 215-221: the POST is acked, the success notification is shown
ToggleAcked ==
    /\ At("on_toggle_remapping", "post_toggle")
    /\ \E ack \in Acks :
         /\ api_post(ack)
         /\ run' = Stopped(Front(stack), [First(run, TRUE) EXCEPT !.notes_ok = @ + 1])
    /\ stack' = Front(stack)
    /\ outstanding' = Front(outstanding)
    /\ UNCHANGED << mock, daemon_running, current_profile, remapping_enabled,
                    profiles_loaded, toggle_active, submenu, timer_registered, tick_due,
                    events >>

\* lines 215, 222-224: the POST failed, the item is set back
ToggleFailed ==
    /\ At("on_toggle_remapping", "post_toggle")
    /\ Len(stack) < MaxDepth
    /\ \E ack \in Acks :
         /\ ~api_post(ack)
         /\ set_active(~Top.enabled, SetTopPc("set_active"), Front(outstanding),
                       First(run, FALSE))
    /\ UNCHANGED << mock, daemon_running, current_profile, profiles_loaded, submenu,
                    timer_registered, tick_due, events >>

\* lines 225-229, after set_active has returned: the failure notification
ToggleReverted ==
    /\ At("on_toggle_remapping", "set_active")
    /\ stack' = Front(stack)
    /\ run' = Stopped(Front(stack), [run EXCEPT !.notes_err = @ + 1])
    /\ UNCHANGED << mock, daemon_running, current_profile, remapping_enabled,
                    profiles_loaded, toggle_active, submenu, timer_registered, tick_due,
                    events, outstanding >>

----------------------------------------------------------------------------
(* on_switch_profile *)

\* lines 233-240: acked, the name is taken over, the list is asked again
SwitchAcked ==
    /\ At("on_switch_profile", "post_activate")
    /\ \E ack \in Acks :
         /\ api_post(ack)
         /\ current_profile' = Top.name
         /\ update_profiles_call(SetTopPc("update_profiles"), Front(outstanding),
                                 [First(run, TRUE) EXCEPT !.notes_ok = @ + 1])
    /\ UNCHANGED << mock, daemon_running, remapping_enabled, profiles_loaded,
                    toggle_active, timer_registered, tick_due, events >>

\* lines 233, 241-246: failed, the failure notification is shown
SwitchFailed ==
    /\ At("on_switch_profile", "post_activate")
    /\ \E ack \in Acks :
         /\ ~api_post(ack)
         /\ run' = Stopped(Front(stack), [First(run, FALSE) EXCEPT !.notes_err = @ + 1])
    /\ stack' = Front(stack)
    /\ outstanding' = Front(outstanding)
    /\ UNCHANGED << mock, daemon_running, current_profile, remapping_enabled,
                    profiles_loaded, toggle_active, submenu, timer_registered, tick_due,
                    events >>

\* line 240 has returned, so does on_switch_profile
SwitchReturns ==
    /\ At("on_switch_profile", "update_profiles")
    /\ stack' = Front(stack)
    /\ run' = Stopped(Front(stack), run)
    /\ UNCHANGED << mock, daemon_running, current_profile, remapping_enabled,
                    profiles_loaded, toggle_active, submenu, timer_registered, tick_due,
                    events, outstanding >>

----------------------------------------------------------------------------

Next ==
    \/ TimerFires
    \/ UserClicks
    \/ DispatchTick
    \/ DispatchToggle
    \/ DispatchSwitch
    \/ DispatchRefresh
    \/ StatusAnswered
    \/ StatusLoadsProfiles
    \/ StatusReturns
    \/ StatusLoaded
    \/ ProfilesAnswered
    \/ ToggleAcked
    \/ ToggleFailed
    \/ ToggleReverted
    \/ SwitchAcked
    \/ SwitchFailed
    \/ SwitchReturns

Spec == Init /\ [][Next]_vars

----------------------------------------------------------------------------
(* Properties *)

\* the top-level handler f has returned and the loop is idle again
Completed(f) == run.fn = f /\ ~run.active

UserCommand ==
    /\ run.src = "user"
    /\ run.fn \in {"on_toggle_remapping", "on_switch_profile"}
    /\ ~run.active

NumOutstanding(ep) == Cardinality({ i \in DOMAIN outstanding : outstanding[i].endpoint = ep })

MockSubmenu == FixedItems \o ProfileItems(Dict({"profiles"}, FALSE, "default", FALSE, MockProfiles))

\* C1: a user toggle to d, started from state (not d), whose POST fails
\* leaves remapping_enabled at (not d) once the handler has returned.
C1_ToggleRollback ==
    ( /\ Completed("on_toggle_remapping")
      /\ run.src = "user"
      /\ run.first = "fail"
      /\ run.pre.remapping_enabled = ~run.enabled )
    => remapping_enabled = ~run.enabled

C3_StaleOnFailure ==
    ( /\ Completed("update_status")
      /\ run.first = "fail"
      /\ run.pre.ever_ok )
    => /\ daemon_running = FALSE
       /\ current_profile = run.pre.current_profile
       /\ remapping_enabled = run.pre.remapping_enabled
       /\ toggle_active = run.pre.toggle_active
       /\ submenu = run.pre.submenu

C3_Witness ==
    /\ Completed("update_status")
    /\ run.first = "fail"
    /\ run.pre.ever_ok
    /\ run.pre.daemon_running
    /\ current_profile = "gaming"
    /\ NumActive(submenu) = 1

\* C4: in mock mode, from current_profile = "default" and the list
\* [default(active), gaming, coding], an acked switch to "gaming" ends with
\* gaming marked active, default not, and current_profile = "gaming".
C4_MockSwitchScenario ==
    ( /\ mock
      /\ Completed("on_switch_profile")
      /\ run.name = "gaming"
      /\ run.first = "ok"
      /\ run.pre.current_profile = "default"
      /\ run.pre.submenu = MockSubmenu )
    => /\ "gaming" \in ActiveNames(submenu)
       /\ "default" \notin ActiveNames(submenu)
       /\ current_profile = "gaming"

\* C5: whenever daemon_running holds and no handler is running, at most one
\* profile item is marked active (the daemon marks at most one active).
C5_AtMostOneActive ==
    (daemon_running /\ LoopIdle) => NumActive(submenu) <= 1

\* C6 (as claimed): a poll fetches the profiles exactly when its status is
\* accepted and the poll before it was not (or there was none).
C6_FetchOnFirstReachable ==
    Completed("update_status")
    => run.gets_profiles = IF run.accepted /\ ~run.pre.daemon_running THEN 1 ELSE 0

\* C6 (amended): a poll fetches the profiles exactly when its status is
\* accepted and no poll since startup was accepted before it.
C6_FetchOnFirstAcceptedPoll ==
    Completed("update_status")
    => run.gets_profiles = IF run.accepted /\ ~run.pre.ever_ok THEN 1 ELSE 0

C6_Witness ==
    /\ Completed("update_status")
    /\ run.accepted
    /\ run.pre.ever_ok
    /\ ~run.pre.daemon_running
    /\ run.gets_profiles = 0

\* C7: a user toggle or profile switch sends exactly one POST and shows
\* exactly one notification, success for an Ack and failure otherwise.
C7_OneSendOneSignal ==
    UserCommand
    => /\ run.posts_toggle + run.posts_activate = 1
       /\ run.notes_ok + run.notes_err = 1
       /\ run.first = "ok" => run.notes_ok = 1
       /\ run.first = "fail" => run.notes_err = 1

\* a step of the handler that is running
HandlerStep ==
    \/ StatusAnswered \/ StatusLoadsProfiles \/ StatusReturns \/ StatusLoaded
    \/ ProfilesAnswered
    \/ ToggleAcked \/ ToggleFailed \/ ToggleReverted
    \/ SwitchAcked \/ SwitchFailed \/ SwitchReturns

\* C8: the periodic timer stays installed whatever the polls and commands
\* did: a running handler can always go on, and with the loop idle the
\* timer can become due or the due tick can start the next poll.
C8_PollingNeverStops ==
    /\ timer_registered
    /\ ~LoopIdle => ENABLED HandlerStep
    /\ LoopIdle => (ENABLED TimerFires \/ ENABLED DispatchTick)

C8_Witness ==
    /\ Completed("update_status")
    /\ run.src = "timer"
    /\ run.first = "fail"
    /\ ~run.pre.daemon_running
    /\ run.pre.ever_ok
    /\ timer_registered

\* C9: never two requests outstanding at once, in particular never two
\* status GETs, also when a tick is due while a request is outstanding.
C9_NoOverlappingPolls ==
    /\ NumOutstanding(STATUS) <= 1
    /\ Len(outstanding) <= 1
    /\ Cardinality({ i \in DOMAIN stack : stack[i].fn = "update_status" }) <= 1

C9_Witness ==
    /\ tick_due
    /\ run.src = "timer"
    /\ outstanding = << Request("GET", STATUS) >>

\* C10: after a completed poll, daemon_running holds exactly if the status
\* GET came back with a success status and a JSON object, whatever is in it.
C10_ReachableTracksLastPoll ==
    Completed("update_status") => (daemon_running <=> run.first = "ok")

\* C11: a profile switch whose POST fails leaves current_profile and the
\* active marking of every profile entry as they were before the click.
C11_SwitchRollback ==
    ( /\ Completed("on_switch_profile")
      /\ run.first = "fail" )
    => /\ current_profile = run.pre.current_profile
       /\ submenu = run.pre.submenu

EntriesOf(l) == [i \in 1..Len(l) |-> Item("check", l[i].name, l[i].active)]

\* a handler that fetched the profile list has returned
Rebuilt == ~run.active /\ run.gets_profiles >= 1

\* C13 (as claimed): after a rebuild the submenu is the two fixed items
\* followed by one entry per profile of the response, or by the placeholder
\* alone when the fetch failed.
C13_RebuildMatchesResponse ==
    Rebuilt
    => submenu = FixedItems \o (IF run.profiles_data.none THEN << Placeholder >>
                                ELSE EntriesOf(run.profiles_data.profiles))

\* C13 (amended): the same, with the placeholder also shown for a response
\* that is an empty object; the fixed items never move, and a rebuild from
\* the response that built the current list changes nothing.
C13_IdempotentRebuild ==
    /\ SubSeq(submenu, 1, 2) = FixedItems
    /\ Rebuilt
         => submenu = FixedItems \o
                (IF run.profiles_data.none \/ run.profiles_data.keys = {}
                 THEN << Placeholder >>
                 ELSE EntriesOf(run.profiles_data.profiles))
    /\ ( /\ Completed("update_profiles")
         /\ "profiles" \in run.profiles_data.keys
         /\ run.pre.submenu = FixedItems \o EntriesOf(run.profiles_data.profiles) )
         => submenu = run.pre.submenu

C13_Witness ==
    /\ Completed("update_profiles")
    /\ run.pre.profiles_loaded
    /\ Len(run.profiles_data.profiles) = 2
    /\ run.pre.submenu = FixedItems \o EntriesOf(run.profiles_data.profiles)
    /\ submenu = run.pre.submenu

\* C14: after a poll whose status GET answered {profile: p,
\* remapping_enabled: e}, daemon_running holds, current_profile is p, the
\* remapping state (field and toggle item) is e, and the profile list is
\* untouched unless the poll fetched it.
C14_SuccessfulPollReplaces ==
    ( /\ Completed("update_status")
      /\ run.first = "ok"
      /\ run.status.full )
    => /\ daemon_running
       /\ current_profile = run.status.profile
       /\ remapping_enabled = run.status.enabled
       /\ toggle_active = run.status.enabled
       /\ run.gets_profiles = 0 => submenu = run.pre.submenu

\* C15: an acked profile switch fetches the profile list exactly once before
\* it returns and ends with the active markings of that answer; a failed
\* switch fetches nothing.
C15_AckedSwitchRefreshes ==
    Completed("on_switch_profile")
    => /\ run.first = "ok"
         => /\ run.gets_profiles = 1
            /\ "profiles" \in run.profiles_data.keys
                 => /\ Len(submenu) = 2 + Len(run.profiles_data.profiles)
                    /\ \A i \in DOMAIN run.profiles_data.profiles :
                         /\ submenu[2 + i].label = run.profiles_data.profiles[i].name
                         /\ submenu[2 + i].active = run.profiles_data.profiles[i].active
            /\ "profiles" \notin run.profiles_data.keys => NumActive(submenu) = 0
       /\ run.first = "fail" => run.gets_profiles = 0

C15_Witness ==
    /\ Completed("on_switch_profile")
    /\ ~mock
    /\ run.first = "ok"
    /\ run.gets_profiles = 1
    /\ run.name = "gaming"
    /\ current_profile = "gaming"
    /\ ActiveNames(submenu) = {"default"}

\* C16: the poll of __init__ is issued before the first tick is due and has
\* returned before the loop dispatches any tick or menu event, so every
\* handler the loop starts finds a poll already made.
C16_InitialPollFirst ==
    /\ run.src = "init"
         => /\ run.fn = "update_status"
            /\ run.gets_status = 1
            /\ run.active => (stack # << >> /\ stack[1].fn = "update_status" /\ ~stack[1].timer)
    /\ run.src # "init" => run.pre.polled

C16_Witness ==
    /\ run.src = "user"
    /\ run.fn = "on_toggle_remapping"
    /\ run.pre.polled
    /\ ~run.pre.ever_ok

\* C17: a poll sends no POST /api/toggle and shows no notification, also
\* when the remapping_enabled it reads differs from the toggle item's state.
C17_PollsReadOnly ==
    run.fn = "update_status"
    => /\ run.posts_toggle = 0
       /\ run.posts_activate = 0
       /\ run.notes_ok + run.notes_err = 0

\* C18: with the daemon reachable and the list loaded, a poll that starts
\* with the active entry being the one named by current_profile ends that way.
C18_NameAndListAgree ==
    ( /\ Completed("update_status")
      /\ daemon_running
      /\ profiles_loaded
      /\ run.pre.daemon_running
      /\ run.pre.profiles_loaded
      /\ run.status.full
      /\ ActiveNames(run.pre.submenu) = {run.pre.current_profile} )
    => ActiveNames(submenu) = {current_profile}

====
